---- MODULE Spec2Model ----
(***************************************************************************)
(* A model of super-sudoku (src/main.py): the constraint checker, the     *)
(* backtracking solver, puzzle generation, the digit permutation, the     *)
(* play loop, scoring and the score list of the menu.                     *)
(*                                                                         *)
(* A board is the list of lists of one-character strings the program      *)
(* keeps: board[row][col] is ".", "_" or one of "1".."9", rows and        *)
(* columns indexed from 0.  The recursion of solve_sudoku is kept as an   *)
(* explicit stack of the cells and digits being tried.                    *)
(*                                                                         *)
(* The program is one process; each specification below runs one part of  *)
(* it: solve_sudoku on its own (SpecSolve), generate_sudoku (SpecGen),    *)
(* randomize_board (SpecRand), play_game (SpecPlay), SudokuScore          *)
(* (SpecScore) and the menu with the session's scores (SpecMenu).         *)
(***************************************************************************)
EXTENDS Integers, Sequences, FiniteSets, TLC

VARIABLES
    pc,               \* the place the program is at
    board,            \* the 9x9 board
    stack,            \* solve_sudoku's active calls: <<row, col, num>> each
    board0,           \* the board as it was when solve_sudoku was called
    ret,              \* the value solve_sudoku / play_game returned
    args,             \* SudokuBoardArguments: [difficulty |-> ...]
    args0,            \* the difficulty as the caller passed it
    cells_to_remove,  \* generate_sudoku's countdown
    convert,          \* randomize_board's digit map
    remapable_nums,   \* randomize_board's set of free digits
    num_i,            \* randomize_board's loop variable i
    picked,           \* randomize_board's last pairing
    i, j,             \* play_game's cell
    raw_candidate,    \* play_game's _candidate
    candidate,        \* play_game's candidate
    guess_count,      \* play_game's counter
    score,            \* the last SudokuScore constructed
    scores,           \* ctx.scores
    added             \* how many scores the session has recorded

vars == <<pc, board, stack, board0, ret, args, args0, cells_to_remove, convert,
          remapable_nums, num_i, picked, i, j, raw_candidate, candidate,
          guess_count, score, scores, added>>

None == "None"

\* Python values of the types a difficulty may have
PyInt(n) == [type |-> "int", val |-> n]
PyStr == [type |-> "str", val |-> 0]
PyFloat == [type |-> "float", val |-> 0]
PyTrue == [type |-> "bool", val |-> 1]
PyFalse == [type |-> "bool", val |-> 0]
PyNone == [type |-> "NoneType", val |-> 0]

\* ------------------------------------------------------------ constants

MIN_DIFFICULTY == 1
MAX_DIFFICULTY == 60

N == 9
BOX == 3

\* -------------------------------------------------------------- helpers

Idx == 0 .. (N - 1)
Nums == 1 .. N
Cells == Idx \X Idx

\* str(num) for num in 1..9
str(num) == <<"1", "2", "3", "4", "5", "6", "7", "8", "9">>[num]

Digits == { str(n) : n \in Nums }

Min(a, b) == IF a <= b THEN a ELSE b
Max(a, b) == IF a >= b THEN a ELSE b

EmptyBoard == [r \in Idx |-> [c \in Idx |-> "."]]

\* ------------------------------------------------------------ can_place

\* a checker that forgets the 3x3 box
can_place_nobox(b, row, col, num) ==
    ~ \E k \in Idx : b[row][k] = str(num) \/ b[k][col] = str(num)

can_place(b, row, col, num) ==
    LET start_row == (row \div BOX) * BOX
        start_col == (col \div BOX) * BOX
    IN  /\ ~ \E k \in Idx : b[row][k] = str(num) \/ b[k][col] = str(num)
        /\ ~ \E r \in start_row .. (start_row + BOX - 1) :
               \E c \in start_col .. (start_col + BOX - 1) : b[r][c] = str(num)

\* ------------------------------------------------- properties of boards

Rows == { { <<r, c>> : c \in Idx } : r \in Idx }
Cols == { { <<r, c>> : r \in Idx } : c \in Idx }
Boxes == { { <<br * BOX + r, bc * BOX + c>> :
               r \in 0 .. (BOX - 1), c \in 0 .. (BOX - 1) } :
           br \in 0 .. (BOX - 1), bc \in 0 .. (BOX - 1) }
Units == Rows \cup Cols \cup Boxes

\* no digit twice in a row, a column or a box
NoRepeat(b) ==
    \A u \in Units :
        Cardinality({ b[p[1]][p[2]] : p \in u } \cap Digits)
            = Cardinality({ p \in u : b[p[1]][p[2]] \in Digits })

\* no empty cell, and every row, column and box holds each of 1..9 once
CompleteValid(b) ==
    /\ \A p \in Cells : b[p[1]][p[2]] \in Digits
    /\ \A u \in Units : { b[p[1]][p[2]] : p \in u } = Digits

Filled(b) == { p \in Cells : b[p[1]][p[2]] \in Digits }
Blank(b) == { p \in Cells : b[p[1]][p[2]] = "." }

\* c extends b: every filled cell of b is the same in c
Extends(c, b) == \A p \in Filled(b) : c[p[1]][p[2]] = b[p[1]][p[2]]

\* a full valid board that extends b exists: every way of filling the
\* blank cells is tried
Fill(b, f) == [r \in Idx |-> [c \in Idx |->
                 IF b[r][c] = "." THEN f[<<r, c>>] ELSE b[r][c]]]

HasCompletion(b) ==
    \E f \in [Blank(b) -> Digits] : CompleteValid(Fill(b, f))

\* ------------------------------------------------------ variable groups

solveVars == <<stack, board0, ret>>
genVars == <<args, args0, cells_to_remove>>
randVars == <<convert, remapable_nums, num_i, picked>>
playVars == <<i, j, raw_candidate, candidate, guess_count>>
scoreVars == <<score, scores, added>>

SolveIdle == stack = <<>> /\ board0 = EmptyBoard /\ ret = PyNone
GenIdle == /\ args = [difficulty |-> PyInt(MIN_DIFFICULTY)]
           /\ args0 = PyInt(MIN_DIFFICULTY)
           /\ cells_to_remove = 0
RandIdle == /\ convert = [d \in Digits |-> None]
            /\ remapable_nums = Digits
            /\ num_i = 1
            /\ picked = [i |-> 0, map_to |-> None, free |-> {}]
PlayIdle == /\ i = 0 /\ j = 0
            /\ raw_candidate = PyNone /\ candidate = PyNone
            /\ guess_count = 0
ScoreIdle == score = PyNone /\ scores = <<>> /\ added = 0

\* --------------------------------------------------------- solve_sudoku

\* the first cell, in row-major order, holding "." (N * N when none does)
FirstEmpty(b) ==
    LET E == { k \in 0 .. (N * N - 1) : b[k \div N][k % N] = "." }
    IN  IF E = {} THEN N * N
        ELSE CHOOSE e \in E : \A f \in E : e <= f

\* the digits from num on that can_place accepts at (row, col)
Placeable(b, row, col, num) ==
    { n \in num .. N : can_place(b, row, col, n) }

\* a call of solve_sudoku begins: it scans for the first empty cell and
\* returns True when there is none, else starts "for num in range(1, 10)"
SolveEnter ==
    /\ pc = "solve_enter"
    /\ LET e == FirstEmpty(board)
       IN  IF e = N * N
           THEN /\ ret' = PyTrue
                /\ pc' = "solve_return"
                /\ stack' = stack
           ELSE /\ stack' = Append(stack, <<e \div N, e % N, 1>>)
                /\ pc' = "solve_try"
                /\ ret' = ret
    /\ UNCHANGED <<board, board0, genVars, randVars, playVars, scoreVars>>

\* the loop over num in the innermost call: up to the next digit that
\* can_place accepts, which is placed before the recursive call; with no
\* digit left the call returns False
SolveTry ==
    /\ pc = "solve_try"
    /\ LET top == stack[Len(stack)]
           ok == Placeable(board, top[1], top[2], top[3])
       IN  IF ok = {}
           THEN /\ stack' = SubSeq(stack, 1, Len(stack) - 1)
                /\ ret' = PyFalse
                /\ pc' = "solve_return"
                /\ board' = board
           ELSE LET num == CHOOSE n \in ok : \A m \in ok : n <= m
                IN  /\ board' = [board EXCEPT ![top[1]][top[2]] = str(num)]
                    /\ stack' = [stack EXCEPT ![Len(stack)] =
                                    <<top[1], top[2], num>>]
                    /\ pc' = "solve_enter"
                    /\ ret' = ret
    /\ UNCHANGED <<board0, genVars, randVars, playVars, scoreVars>>

\* a return that leaves the digit it tried in the cell when the call failed
SolveReturn_norevert ==
    /\ pc = "solve_return"
    /\ IF stack = <<>>
       THEN /\ pc' = "solve_done"
            /\ UNCHANGED <<board, stack, ret>>
       ELSE LET top == stack[Len(stack)]
            IN  IF ret = PyTrue
                THEN /\ stack' = SubSeq(stack, 1, Len(stack) - 1)
                     /\ pc' = "solve_return"
                     /\ UNCHANGED <<board, ret>>
                ELSE /\ stack' = [stack EXCEPT ![Len(stack)] =
                                     <<top[1], top[2], top[3] + 1>>]
                     /\ pc' = "solve_try"
                     /\ UNCHANGED <<board, ret>>
    /\ UNCHANGED <<board0, genVars, randVars, playVars, scoreVars>>

\* a call has returned: the outermost one ends the solve; an inner one that
\* returned True makes its caller return True, one that returned False has
\* its caller put "." back and go on with the next digit
SolveReturn ==
    /\ pc = "solve_return"
    /\ IF stack = <<>>
       THEN /\ pc' = "solve_done"
            /\ UNCHANGED <<board, stack, ret>>
       ELSE LET top == stack[Len(stack)]
            IN  IF ret = PyTrue
                THEN /\ stack' = SubSeq(stack, 1, Len(stack) - 1)
                     /\ pc' = "solve_return"
                     /\ UNCHANGED <<board, ret>>
                ELSE /\ board' = [board EXCEPT ![top[1]][top[2]] = "."]
                     /\ stack' = [stack EXCEPT ![Len(stack)] =
                                     <<top[1], top[2], top[3] + 1>>]
                     /\ pc' = "solve_try"
                     /\ ret' = ret
    /\ UNCHANGED <<board0, genVars, randVars, playVars, scoreVars>>

\* ------------------------------------------- solve_sudoku, called alone

\* solve_sudoku's inputs: a full valid board with this many cells overwritten
MaxPool == 3

\* a full valid board: each row is the one above shifted by three, each
\* band the one above shifted by one
PatternBoard ==
    [r \in Idx |-> [c \in Idx |->
        str((((r % BOX) * BOX + (r \div BOX) + c) % N) + 1)]]

\* the cells an input may overwrite, in the order they are taken
PoolCells == << <<0, 0>>, <<0, 1>>, <<3, 0>>, <<3, 1>>, <<1, 0>>, <<4, 4>> >>

RECURSIVE Overwrite(_, _, _)
Overwrite(b, f, n) ==
    IF n = 0 THEN b
    ELSE Overwrite([b EXCEPT ![PoolCells[n][1]][PoolCells[n][2]] = f[n]],
                   f, n - 1)

SolveInputs ==
    {EmptyBoard} \cup
    { Overwrite(PatternBoard, f, MaxPool) :
        f \in [1 .. MaxPool -> {"."} \cup Digits] }

InitSolve ==
    /\ pc = "solve_enter"
    /\ board \in SolveInputs
    /\ board0 = board
    /\ stack = <<>>
    /\ ret = PyNone
    /\ GenIdle /\ RandIdle /\ PlayIdle /\ ScoreIdle

NextSolve == SolveEnter \/ SolveTry \/ SolveReturn

SpecSolve == InitSolve /\ [][NextSolve]_vars

\* C1: solve_sudoku on the completely empty board returns True and leaves a
\* board with no empty cell in which every row, column and 3x3 box holds
\* each of 1..9 exactly once.
C1_SolveEmptyBoard ==
    (pc = "solve_done" /\ board0 = EmptyBoard)
        => (ret = PyTrue /\ CompleteValid(board))

C1_Witness ==
    /\ pc = "solve_done" /\ board0 = EmptyBoard /\ ret = PyTrue
    /\ board[0][0] = "1" /\ board[8][8] = "2"

\* what the contract of solve_sudoku says of a finished call
SolveContract ==
    /\ ret \in {PyTrue, PyFalse}
    /\ ret = PyTrue => CompleteValid(board) /\ Extends(board, board0)
    /\ ret = PyFalse => board = board0 /\ ~ HasCompletion(board0)

\* C2 as stated: for every board of "." and digits, solve_sudoku returns
\* True exactly when a full valid board extending it exists, leaving such a
\* board with the filled cells as they were, and otherwise returns False
\* leaving the board as it was.
C2_AnyBoard == pc = "solve_done" => SolveContract

\* C2 as amended: the same, for the boards whose filled cells repeat no
\* digit in any row, column or box.
C2_ConsistentBoard ==
    (pc = "solve_done" /\ NoRepeat(board0)) => SolveContract

\* a consistent board with blank cells and no completion was tried
C2_Witness ==
    /\ pc = "solve_done" /\ NoRepeat(board0)
    /\ ret = PyFalse /\ Cardinality(Blank(board0)) >= 2

\* ------------------------------------------------- validate_sudoku_args

\* the default of a difficulty that is no integer
DefaultDifficulty == MIN_DIFFICULTY + (MAX_DIFFICULTY - MIN_DIFFICULTY) \div 2

\* a validation that lets a difficulty above the maximum through
validate_sudoku_args_nomax(d) ==
    IF d.type # "int" THEN PyInt(DefaultDifficulty)
    ELSE IF d.val < MIN_DIFFICULTY THEN PyInt(MIN_DIFFICULTY)
    ELSE d

\* the difficulty validate_sudoku_args leaves in args
validate_sudoku_args(d) ==
    IF d.type # "int" THEN PyInt(DefaultDifficulty)
    ELSE IF d.val < MIN_DIFFICULTY THEN PyInt(MIN_DIFFICULTY)
    ELSE IF d.val > MAX_DIFFICULTY THEN PyInt(MAX_DIFFICULTY)
    ELSE d

\* ------------------------------------------------------ generate_sudoku

\* the difficulties tried reach this far below and above each limit
Around == 1

\* the random draws of a cell to remove are the first DrawWindow blank cells
\* (a draw that is tried again) and the first DrawWindow filled cells, in
\* row-major order
DrawWindow == 2

DifficultyInputs ==
    { PyInt(n) : n \in ((MIN_DIFFICULTY - Around) .. (MIN_DIFFICULTY + Around))
                   \cup ((MAX_DIFFICULTY - Around) .. (MAX_DIFFICULTY + Around))
                   \cup {5, 10, 1000} }
    \cup {PyStr, PyFloat, PyTrue, PyNone}

\* the cell drawn holds a digit: it is blanked and counted; a blank cell
\* is left and counted all the same
RemoveCell_countblank(row, col) ==
    /\ board' = [board EXCEPT ![row][col] = "."]
    /\ cells_to_remove' = cells_to_remove - 1

\* one turn of the removal loop with (row, col) drawn
RemoveCell(row, col) ==
    IF board[row][col] # "."
    THEN /\ board' = [board EXCEPT ![row][col] = "."]
         /\ cells_to_remove' = cells_to_remove - 1
    ELSE UNCHANGED <<board, cells_to_remove>>

\* the n smallest members of a set of numbers
RECURSIVE Smallest(_, _)
Smallest(S, n) ==
    IF n = 0 \/ S = {} THEN {}
    ELSE LET m == CHOOSE x \in S : \A y \in S : x <= y
         IN  {m} \cup Smallest(S \ {m}, n - 1)

\* the draws: cells as row * 9 + col
GenDraws(b) ==
    Smallest({ k \in 0 .. (N * N - 1) : b[k \div N][k % N] = "." }, DrawWindow)
    \cup Smallest({ k \in 0 .. (N * N - 1) : b[k \div N][k % N] # "." }, DrawWindow)

\* generate_sudoku begins: an empty board, handed to solve_sudoku
GenStart ==
    /\ pc = "gen_start"
    /\ board' = EmptyBoard
    /\ board0' = EmptyBoard
    /\ stack' = <<>>
    /\ pc' = "solve_enter"
    /\ UNCHANGED <<ret, genVars, randVars, playVars, scoreVars>>

\* solve_sudoku has returned: the arguments are validated in place and the
\* countdown is set
GenValidate ==
    /\ pc = "solve_done"
    /\ args' = [args EXCEPT !.difficulty = validate_sudoku_args(args.difficulty)]
    /\ cells_to_remove' = args'.difficulty.val
    /\ pc' = "gen_remove"
    /\ UNCHANGED <<board, solveVars, args0, randVars, playVars, scoreVars>>

GenRemove ==
    /\ pc = "gen_remove"
    /\ cells_to_remove > 0
    /\ \E k \in GenDraws(board) : RemoveCell(k \div N, k % N)
    /\ UNCHANGED <<pc, solveVars, args, args0, randVars, playVars, scoreVars>>

GenReturn ==
    /\ pc = "gen_remove"
    /\ ~ (cells_to_remove > 0)
    /\ pc' = "gen_done"
    /\ UNCHANGED <<board, solveVars, genVars, randVars, playVars, scoreVars>>

InitGen ==
    /\ pc = "gen_start"
    /\ board = EmptyBoard
    /\ SolveIdle
    /\ args0 \in DifficultyInputs
    /\ args = [difficulty |-> args0]
    /\ cells_to_remove = 0
    /\ RandIdle /\ PlayIdle /\ ScoreIdle

NextGen ==
    \/ GenStart \/ SolveEnter \/ SolveTry \/ SolveReturn
    \/ GenValidate \/ GenRemove \/ GenReturn

SpecGen == InitGen /\ [][NextGen]_vars

\* C3: for every difficulty k in [MIN_DIFFICULTY, MAX_DIFFICULTY] the
\* removal loop of generate_sudoku ends with exactly k blank cells and
\* 81 - k filled ones (60 leaves 21 filled cells, 10 leaves 71), and no
\* digit among the filled cells is repeated in a row, a column or a box.
C3_RemovalCount ==
    (/\ pc = "gen_done"
     /\ args0.type = "int"
     /\ args0.val \in MIN_DIFFICULTY .. MAX_DIFFICULTY)
        => /\ Cardinality(Blank(board)) = args0.val
           /\ Cardinality(Filled(board)) = N * N - args0.val
           /\ args0.val = 60 => Cardinality(Filled(board)) = 21
           /\ args0.val = 10 => Cardinality(Filled(board)) = 71
           /\ NoRepeat(board)

C3_Witness ==
    /\ pc = "gen_done" /\ args0 = PyInt(60)
    /\ Cardinality(Filled(board)) = 21
    /\ board[0][0] # "."

Validated == pc \in {"gen_remove", "gen_done"}

\* what validate_sudoku_args does with each kind of difficulty
ValidateRule ==
    /\ args0.type # "int" => args.difficulty = PyInt(DefaultDifficulty)
    /\ (args0.type = "int" /\ args0.val < MIN_DIFFICULTY)
           => args.difficulty = PyInt(MIN_DIFFICULTY)
    /\ (args0.type = "int" /\ args0.val > MAX_DIFFICULTY)
           => args.difficulty = PyInt(MAX_DIFFICULTY)
    /\ (args0.type = "int" /\ args0.val \in MIN_DIFFICULTY .. MAX_DIFFICULTY)
           => args.difficulty = args0

\* C6 as stated: validate_sudoku_args corrects the difficulty in place (no
\* integer: the midpoint; below the minimum: the minimum; above the
\* maximum: the maximum; in range: unchanged), so that 5 becomes 10, 1000
\* becomes 60 and a string becomes 35.
C6_AsStated ==
    Validated =>
        /\ ValidateRule
        /\ args0 = PyInt(5) => args.difficulty = PyInt(10)
        /\ args0 = PyInt(1000) => args.difficulty = PyInt(60)
        /\ args0 = PyStr => args.difficulty = PyInt(35)

\* C6 as amended: the same correction with MIN_DIFFICULTY = 1, so that 5
\* stays 5, 0 becomes 1, 1000 becomes 60 and a string becomes 30.
C6_Validate ==
    Validated =>
        /\ ValidateRule
        /\ args0 = PyInt(5) => args.difficulty = PyInt(5)
        /\ args0 = PyInt(0) => args.difficulty = PyInt(1)
        /\ args0 = PyInt(1000) => args.difficulty = PyInt(60)
        /\ args0 = PyStr => args.difficulty = PyInt(30)

C6_Witness ==
    Validated /\ args0 = PyInt(1000) /\ args.difficulty = PyInt(60)
    /\ cells_to_remove = 60

\* ------------------------------------------------------ randomize_board

\* a pairing that leaves the target among the free digits
Pair_keep(n, map_to) ==
    /\ remapable_nums' = remapable_nums \ {str(n)}
    /\ convert' = [convert EXCEPT ![map_to] = str(n), ![str(n)] = map_to]
    /\ picked' = [i |-> n, map_to |-> map_to, free |-> remapable_nums]
    /\ num_i' = n + 1

\* the loop body for a free digit n with map_to drawn: both leave the free
\* digits, and each is mapped to the other
Pair(n, map_to) ==
    /\ remapable_nums' = (remapable_nums \ {map_to}) \ {str(n)}
    /\ convert' = [convert EXCEPT ![map_to] = str(n), ![str(n)] = map_to]
    /\ picked' = [i |-> n, map_to |-> map_to, free |-> remapable_nums]
    /\ num_i' = n + 1

\* the board with every digit replaced by its image
Remap(b, conv) ==
    [r \in Idx |-> [c \in Idx |->
        IF b[r][c] # "." THEN conv[b[r][c]] ELSE "."]]

\* randomize_board begins: no digit is mapped, all are free
RandStart ==
    /\ pc = "rand_start"
    /\ convert' = [d \in Digits |-> None]
    /\ remapable_nums' = Digits
    /\ num_i' = 1
    /\ pc' = "rand_loop"
    /\ UNCHANGED <<board, solveVars, genVars, picked, playVars, scoreVars>>

\* i was already chosen as a target: continue
RandSkip ==
    /\ pc = "rand_loop"
    /\ num_i <= N
    /\ str(num_i) \notin remapable_nums
    /\ num_i' = num_i + 1
    /\ UNCHANGED <<pc, board, solveVars, genVars, convert, remapable_nums,
                   picked, playVars, scoreVars>>

\* i is free: random.choice draws its target among the free digits
RandPick ==
    /\ pc = "rand_loop"
    /\ num_i <= N
    /\ str(num_i) \in remapable_nums
    /\ \E map_to \in remapable_nums : Pair(num_i, map_to)
    /\ UNCHANGED <<pc, board, solveVars, genVars, playVars, scoreVars>>

\* the loop is over: the map is applied to every cell
RandApply ==
    /\ pc = "rand_loop"
    /\ num_i > N
    /\ board' = Remap(board, convert)
    /\ pc' = "rand_done"
    /\ UNCHANGED <<solveVars, genVars, randVars, playVars, scoreVars>>

\* the boards randomize_board is given: the pattern with the first cells
\* of the pool blank
RandInputs ==
    { Overwrite(PatternBoard, [k \in 1 .. MaxPool |-> "."], m) : m \in 0 .. MaxPool }

InitRand ==
    /\ pc = "rand_start"
    /\ board \in RandInputs
    /\ SolveIdle /\ GenIdle /\ RandIdle /\ PlayIdle /\ ScoreIdle

NextRand == RandStart \/ RandSkip \/ RandPick \/ RandApply

SpecRand == InitRand /\ [][NextRand]_vars

\* C4: whatever random.choice draws, the map randomize_board builds is a
\* bijection over the digits 1..9: every digit has a target and no two
\* digits share one.
C4_Bijection ==
    pc = "rand_done" =>
        /\ \A d \in Digits : convert[d] \in Digits
        /\ \A d \in Digits : \A e \in Digits :
               convert[d] = convert[e] => d = e

C4_Witness ==
    /\ pc = "rand_done"
    /\ convert["1"] = "5" /\ convert["2"] = "2" /\ convert["3"] = "4"

\* C5: a digit maps to itself only if it is the last one left unpaired:
\* whenever a digit is picked while another digit is still free, its
\* target is a different digit.
C5_SelfOnlyWhenLast ==
    (picked.i # 0 /\ picked.free # {str(picked.i)})
        => picked.map_to # str(picked.i)

\* ---------------------------------------------------------- SudokuScore

\* the cap on the guesses counted, the cells of a board, the divisor
CountedGuesses == 80
BoardCells == 81
ScoreDivisor == 15

\* int(num / den) for den > 0: the quotient cut towards zero
IntTrunc(num, den) ==
    IF num >= 0 THEN num \div den ELSE - ((- num) \div den)

\* a score that forgets to cap the guesses at 80
SudokuScore_nocap(guess_count_, difficulty, id) ==
    IF difficulty = 0 THEN [error |-> "AssertionError"]
    ELSE [guess_count |-> guess_count_,
          difficulty |-> difficulty,
          score |-> IntTrunc(difficulty * difficulty * (BoardCells - guess_count_),
                             Max(1, difficulty) * ScoreDivisor),
          id |-> id]

\* SudokuScore(guess_count, difficulty): the assertion, then
\* difficulty**2 * (81 - min(80, guess_count)) / max(1, difficulty), / 15,
\* int().  id tells the objects apart: the id-th score of the session.
SudokuScore(guess_count_, difficulty, id) ==
    IF difficulty = 0 THEN [error |-> "AssertionError"]
    ELSE [guess_count |-> guess_count_,
          difficulty |-> difficulty,
          score |-> IntTrunc(difficulty * difficulty * (BoardCells - Min(CountedGuesses, guess_count_)),
                             Max(1, difficulty) * ScoreDivisor),
          id |-> id]

\* the end of a won play_game: the score is constructed (the assertion may
\* fail) and ctx.add_score appends it
RecordScore(guess_count_, difficulty) ==
    /\ score' = SudokuScore(guess_count_, difficulty, added + 1)
    /\ IF difficulty = 0
       THEN UNCHANGED <<scores, added>>
       ELSE /\ scores' = Append(scores, score')
            /\ added' = added + 1

\* ------------------------------------------------------------ play_game

\* the cells generate_sudoku may draw: this many of the pool
PlayPool == 3

\* guesses the player may submit in one puzzle
MaxGuess == 4

\* pairs of distinct digits randomize_board may swap
MaxSwaps == 1

\* the removal loop with the draws kept to the pool
PlayGenRemove ==
    /\ pc = "gen_remove"
    /\ cells_to_remove > 0
    /\ \E k \in 1 .. PlayPool : RemoveCell(PoolCells[k][1], PoolCells[k][2])
    /\ UNCHANGED <<pc, solveVars, args, args0, randVars, playVars, scoreVars>>

\* generate_sudoku has returned: guess_count = 0, randomize_board is called
PlayRandomize ==
    /\ pc = "gen_done"
    /\ guess_count' = 0
    /\ pc' = "rand_start"
    /\ UNCHANGED <<board, solveVars, genVars, randVars, i, j, raw_candidate,
                   candidate, scoreVars>>

\* the targets drawn for the free digit n: n itself, or the next free
\* digit while fewer than MaxSwaps pairs were swapped
PlayTargets(n) ==
    LET swapped == { d \in Digits : convert[d] # None /\ convert[d] # d }
        later == { m \in (n + 1) .. N : str(m) \in remapable_nums }
    IN  {str(n)} \cup
        (IF Cardinality(swapped) < 2 * MaxSwaps /\ later # {}
         THEN {str(CHOOSE m \in later : \A k \in later : m <= k)}
         ELSE {})

PlayRandPick ==
    /\ pc = "rand_loop"
    /\ num_i <= N
    /\ str(num_i) \in remapable_nums
    /\ \E map_to \in PlayTargets(num_i) : Pair(num_i, map_to)
    /\ UNCHANGED <<pc, board, solveVars, genVars, playVars, scoreVars>>

\* randomize_board has returned: the loops over the cells begin
PlayLoopStart ==
    /\ pc = "rand_done"
    /\ i' = 0 /\ j' = 0
    /\ pc' = "play_scan"
    /\ UNCHANGED <<board, solveVars, genVars, randVars, raw_candidate,
                   candidate, guess_count, scoreVars>>

\* the cells from (i, j) on, in row-major order, that hold "." or "_"
OpenFrom(b, row, col) ==
    { k \in (row * N + col) .. (N * N - 1) :
        b[k \div N][k % N] = "." \/ b[k \div N][k % N] = "_" }

\* the loops move to the next cell holding "." or "_": it is marked "_",
\* candidate is None and the prompt is shown
PlayNextCell ==
    /\ pc = "play_scan"
    /\ OpenFrom(board, i, j) # {}
    /\ LET e == CHOOSE k \in OpenFrom(board, i, j) :
                   \A m \in OpenFrom(board, i, j) : k <= m
       IN  /\ i' = e \div N
           /\ j' = e % N
           /\ board' = [board EXCEPT ![e \div N][e % N] = "_"]
    /\ candidate' = PyNone
    /\ pc' = "play_input"
    /\ UNCHANGED <<solveVars, genVars, randVars, raw_candidate, guess_count,
                   scoreVars>>

\* input() gives text that is no integer: ValueError, the prompt again
PlayBadText ==
    /\ pc = "play_input"
    /\ UNCHANGED vars

\* input() gives an integer outside 1..9: the prompt again
PlayOutOfRange ==
    /\ pc = "play_input"
    /\ \E v \in {-1, 0, 10} : raw_candidate' = PyInt(v)
    /\ UNCHANGED <<pc, board, solveVars, genVars, randVars, i, j, candidate,
                   guess_count, scoreVars>>

\* KeyboardInterrupt at the prompt: exit()
PlayInterrupt ==
    /\ pc = "play_input"
    /\ pc' = "exited"
    /\ UNCHANGED <<board, solveVars, genVars, randVars, playVars, scoreVars>>

\* a digit that can_place accepts: it is written to the cell
PlayAccept ==
    /\ pc = "play_input"
    /\ guess_count < MaxGuess
    /\ \E c \in Nums :
          /\ can_place(board, i, j, c)
          /\ raw_candidate' = PyInt(c)
          /\ candidate' = PyInt(c)
          /\ board' = [board EXCEPT ![i][j] = str(c)]
    /\ guess_count' = guess_count + 1
    /\ pc' = "play_scan"
    /\ UNCHANGED <<solveVars, genVars, randVars, i, j, scoreVars>>

\* a digit that can_place refuses while some digit would pass: WRONG and a
\* hint, and the while loop prompts for the cell again
PlayWrong ==
    /\ pc = "play_input"
    /\ guess_count < MaxGuess
    /\ \E c \in Nums :
          /\ ~ can_place(board, i, j, c)
          /\ \E num \in Nums : can_place(board, i, j, num)
          /\ raw_candidate' = PyInt(c)
    /\ candidate' = PyNone
    /\ guess_count' = guess_count + 1
    /\ UNCHANGED <<pc, board, solveVars, genVars, randVars, i, j, scoreVars>>

\* a refused digit that is asked for again even when no digit passes
PlayLose_again ==
    /\ pc = "play_input"
    /\ guess_count < MaxGuess
    /\ \E c \in Nums :
          /\ ~ can_place(board, i, j, c)
          /\ ~ \E num \in Nums : can_place(board, i, j, num)
          /\ raw_candidate' = PyInt(c)
    /\ candidate' = PyNone
    /\ guess_count' = guess_count + 1
    /\ UNCHANGED <<pc, board, solveVars, genVars, randVars, i, j, scoreVars>>

\* a digit that can_place refuses while no digit passes: "You lost!" and
\* play_game returns -1
PlayLose ==
    /\ pc = "play_input"
    /\ guess_count < MaxGuess
    /\ \E c \in Nums :
          /\ ~ can_place(board, i, j, c)
          /\ ~ \E num \in Nums : can_place(board, i, j, num)
          /\ raw_candidate' = PyInt(c)
          /\ candidate' = PyInt(c)
    /\ guess_count' = guess_count + 1
    /\ ret' = PyInt(-1)
    /\ pc' = "play_lost"
    /\ UNCHANGED <<board, stack, board0, genVars, randVars, i, j, scoreVars>>

\* no cell is left: the score is made and recorded, "You won!"
PlayWin ==
    /\ pc = "play_scan"
    /\ OpenFrom(board, i, j) = {}
    /\ RecordScore(guess_count, args.difficulty.val)
    /\ pc' = IF args.difficulty.val = 0 THEN "assertion_failed" ELSE "play_won"
    /\ UNCHANGED <<board, solveVars, genVars, randVars, playVars>>

InitPlay ==
    /\ pc = "gen_start"
    /\ board = EmptyBoard
    /\ SolveIdle
    /\ args0 \in { PyInt(k) : k \in 1 .. PlayPool }
    /\ args = [difficulty |-> args0]
    /\ cells_to_remove = 0
    /\ RandIdle /\ PlayIdle /\ ScoreIdle

NextPlay ==
    \/ GenStart \/ SolveEnter \/ SolveTry \/ SolveReturn
    \/ GenValidate \/ PlayGenRemove \/ GenReturn
    \/ PlayRandomize \/ RandStart \/ RandSkip \/ PlayRandPick \/ RandApply
    \/ PlayLoopStart \/ PlayNextCell
    \/ PlayBadText \/ PlayOutOfRange \/ PlayInterrupt
    \/ PlayAccept \/ PlayWrong \/ PlayLose \/ PlayWin

\* the program takes its next step, and the player keeps submitting input
SpecPlay == InitPlay /\ [][NextPlay]_vars /\ WF_vars(NextPlay)

\* the loop is at the prompt of a cell for which no digit passes can_place
AtStuckCell ==
    /\ pc = "play_input"
    /\ \A n \in Nums : ~ can_place(board, i, j, n)

\* C7 as stated: when the loop reaches an empty cell for which no digit 1-9
\* passes can_place, then, as long as the player keeps submitting input
\* (and does not interrupt), the loop reports a loss and ends the puzzle.
C7_AsStated ==
    (AtStuckCell /\ guess_count < MaxGuess) ~> (pc \in {"play_lost", "exited"})

\* C7 as amended: at such a cell the next integer in 1..9 the player
\* submits makes the loop report the loss and return -1; any other input
\* leaves the loop at the prompt of the same cell (or, interrupted, exits).
C7_LossOnNextDigit ==
    /\ [][(AtStuckCell /\ guess_count' # guess_count)
             => (pc' = "play_lost" /\ ret' = PyInt(-1))]_vars
    /\ [][(AtStuckCell /\ guess_count' = guess_count)
             => (/\ pc' \in {"play_input", "exited"}
                 /\ board' = board /\ i' = i /\ j' = j)]_vars

C7_Witness ==
    pc = "play_lost" /\ ret = PyInt(-1) /\ guess_count = 2 /\ board[i][j] = "_"

\* the loops of play_game are running or have ended
InPlay == pc \in {"rand_done", "play_scan", "play_input", "play_won",
                  "play_lost", "exited"}

\* C10: in every state of play_game no digit appears twice in a row, a
\* column or a box; once the loops run no filled cell is ever changed; and
\* when play_game wins the board is complete and valid.
C10_BoardStaysValid ==
    /\ [](NoRepeat(board) /\ (pc = "play_won" => CompleteValid(board)))
    /\ [][InPlay => \A p \in Cells :
             board[p[1]][p[2]] \in Digits
                 => board'[p[1]][p[2]] = board[p[1]][p[2]]]_vars

C10_Witness ==
    /\ pc = "play_won" /\ CompleteValid(board)
    /\ guess_count = 3 /\ board[0][0] = "2" /\ convert["1"] = "2"

\* ------------------------------------------- SudokuScore, called alone

\* the inputs reach this far from 0 and from the cap on the guesses
ScoreSpan == 3

GuessInputs ==
    (0 .. ScoreSpan)
    \cup ((CountedGuesses - ScoreSpan) .. (CountedGuesses + ScoreSpan))
    \cup {200}

ScoreDifficulties == ((- ScoreSpan) .. ScoreSpan) \cup {15, 30, 60}

ScoreConstruct ==
    /\ pc = "score_new"
    /\ score' = SudokuScore(guess_count, args.difficulty.val, 1)
    /\ pc' = IF args.difficulty.val = 0 THEN "assertion_failed" ELSE "score_made"
    /\ UNCHANGED <<board, solveVars, genVars, randVars, playVars, scores, added>>

InitScore ==
    /\ pc = "score_new"
    /\ board = EmptyBoard
    /\ SolveIdle /\ RandIdle /\ ScoreIdle
    /\ args0 \in { PyInt(d) : d \in ScoreDifficulties }
    /\ args = [difficulty |-> args0]
    /\ cells_to_remove = 0
    /\ i = 0 /\ j = 0 /\ raw_candidate = PyNone /\ candidate = PyNone
    /\ guess_count \in GuessInputs

NextScore == ScoreConstruct

SpecScore == InitScore /\ [][NextScore]_vars

\* C8: for every guess_count >= 0 and every difficulty other than 0 the
\* score is floor(difficulty^2 * (81 - min(80, guess_count))
\* / max(1, difficulty) / 15), so that (0, 15) gives 81 and (81, 15) gives
\* 1; with difficulty 0 the assertion fails.
C8_ScoreFormula ==
    pc # "score_new" =>
        LET d == args.difficulty.val
            g == guess_count
        IN  /\ d = 0 <=> pc = "assertion_failed"
            /\ d # 0 =>
                 /\ score.score =
                      (d * d * (81 - Min(80, g))) \div (Max(1, d) * 15)
                 /\ (g = 0 /\ d = 15) => score.score = 81
                 /\ (g = 81 /\ d = 15) => score.score = 1

C8_Witness ==
    /\ pc = "score_made" /\ guess_count = 81 /\ args.difficulty.val = 15
    /\ score.score = 1

\* ------------------------------------------ the menu and the score list

\* SudokuScore.__lt__ as the usual order
SudokuScore__lt__ascending(self, other) == self.score < other.score

\* SudokuScore.__lt__
SudokuScore__lt__(self, other) == self.score >= other.score

\* list.sort on a list shorter than 64: the run at the head of the list is
\* found with __lt__ (reversed when it descends), and each later item is
\* put in its place by binary insertion
RECURSIVE RunEnd(_, _, _)
RunEnd(a, k, descending) ==
    IF k < Len(a) /\ (SudokuScore__lt__(a[k + 1], a[k]) = descending)
    THEN RunEnd(a, k + 1, descending)
    ELSE k

Reverse(a) == [k \in 1 .. Len(a) |-> a[Len(a) + 1 - k]]

\* where binary insertion puts pivot among a[1 .. r], as a count of the
\* items left of it
RECURSIVE BinPos(_, _, _, _)
BinPos(a, pivot, l, r) ==
    IF l >= r THEN l
    ELSE LET p == l + (r - l) \div 2
         IN  IF SudokuScore__lt__(pivot, a[p + 1])
             THEN BinPos(a, pivot, l, p)
             ELSE BinPos(a, pivot, p + 1, r)

RECURSIVE BinarySort(_, _)
BinarySort(a, start) ==
    IF start > Len(a) THEN a
    ELSE LET l == BinPos(a, a[start], 0, start - 1)
         IN  BinarySort(SubSeq(a, 1, l) \o <<a[start]>>
                          \o SubSeq(a, l + 1, start - 1)
                          \o SubSeq(a, start + 1, Len(a)),
                        start + 1)

list_sort(a) ==
    IF Len(a) < 2 THEN a
    ELSE LET descending == SudokuScore__lt__(a[2], a[1])
             n == RunEnd(a, 2, descending)
             run == SubSeq(a, 1, n)
         IN  BinarySort((IF descending THEN Reverse(run) ELSE run)
                          \o SubSeq(a, n + 1, Len(a)),
                        n + 1)

\* scores one session records
MaxScores == 3

\* the difficulties chosen at the menu
MaxMenuDifficulty == 3

\* guesses beyond one per blank cell
MaxExtraGuess == 1

\* display_menu draws the menu: with scores recorded, they are sorted
MenuDraw ==
    /\ pc = "menu"
    /\ scores' = IF Len(scores) > 0 THEN list_sort(scores) ELSE scores
    /\ pc' = "menu_input"
    /\ UNCHANGED <<board, solveVars, genVars, randVars, playVars, score, added>>

\* the input is no integer or outside the limits: the menu is drawn again
MenuBadInput ==
    /\ pc = "menu_input"
    /\ pc' = "menu"
    /\ UNCHANGED <<board, solveVars, genVars, randVars, playVars, scoreVars>>

\* KeyboardInterrupt at the menu: exit()
MenuInterrupt ==
    /\ pc = "menu_input"
    /\ pc' = "exited"
    /\ UNCHANGED <<board, solveVars, genVars, randVars, playVars, scoreVars>>

\* a difficulty within the limits: play_game is called with it
MenuChoose ==
    /\ pc = "menu_input"
    /\ added < MaxScores
    /\ \E d \in MIN_DIFFICULTY .. MaxMenuDifficulty :
          /\ args' = [difficulty |-> PyInt(d)]
          /\ args0' = PyInt(d)
    /\ pc' = "menu_play"
    /\ UNCHANGED <<board, solveVars, cells_to_remove, randVars, playVars,
                   scoreVars>>

\* play_game is won after some number of guesses, at least one per blank
\* cell: the score is recorded and the menu comes back
MenuPlayWon ==
    /\ pc = "menu_play"
    /\ \E g \in args.difficulty.val .. (args.difficulty.val + MaxExtraGuess) :
          /\ guess_count' = g
          /\ RecordScore(g, args.difficulty.val)
    /\ pc' = "menu"
    /\ UNCHANGED <<board, solveVars, genVars, randVars, i, j, raw_candidate,
                   candidate>>

\* play_game is lost: no score, and the menu comes back
MenuPlayLost ==
    /\ pc = "menu_play"
    /\ pc' = "menu"
    /\ UNCHANGED <<board, solveVars, genVars, randVars, playVars, scoreVars>>

InitMenu ==
    /\ pc = "menu"
    /\ board = EmptyBoard
    /\ SolveIdle /\ GenIdle /\ RandIdle /\ PlayIdle /\ ScoreIdle

NextMenu ==
    \/ MenuDraw \/ MenuBadInput \/ MenuInterrupt \/ MenuChoose
    \/ MenuPlayWon \/ MenuPlayLost

SpecMenu == InitMenu /\ [][NextMenu]_vars

Descending(a) ==
    \A k \in 1 .. (Len(a) - 1) : a[k].score >= a[k + 1].score

\* the list holds the scores recorded, each once
AllRecorded(a) ==
    /\ Len(a) = added
    /\ { a[k].id : k \in 1 .. Len(a) } = 1 .. added

\* scores of equal value stand in the order they were recorded
TiesInOrder(a) ==
    \A k \in 1 .. (Len(a) - 1) :
        a[k].score = a[k + 1].score => a[k].id < a[k + 1].id

\* C9 as stated: after the menu sorts the list the scores are in descending
\* numeric order and scores of equal value keep their insertion order.
C9_AsStated ==
    pc = "menu_input" => Descending(scores) /\ TiesInOrder(scores)

\* C9 as amended: after the menu sorts the list it holds the recorded
\* scores in descending numeric order; scores of equal value stand in no
\* fixed order.
C9_SortedDescending ==
    pc = "menu_input" => Descending(scores) /\ AllRecorded(scores)

C9_Witness ==
    /\ pc = "menu_input" /\ Len(scores) = 3
    /\ scores[1].id = 3 /\ scores[2].id = 1 /\ scores[3].id = 2
    /\ scores[1].score > scores[2].score /\ scores[2].score > scores[3].score

====
